---- MODULE Spec2Model ----
(***************************************************************************)
(* A model of src/main.py: the class-model pipeline (parse_xml,            *)
(* generate_config_xml, generate_meta_json) and the delta pipeline         *)
(* (generate_delta_json, generate_res_patched_config).                     *)
(*                                                                         *)
(* Python values that travel through JSON are triples <<type, n, items>>:  *)
(* type is the Python type, n the numeric value of an int, bool or float,  *)
(* items the payload of a str (a one-element sequence), the elements of a  *)
(* list or the <<key, value>> pairs of a dict in insertion order.          *)
(***************************************************************************)
EXTENDS Integers, Sequences, FiniteSets, TLC

VARIABLES
    xml_file,            \* the parsed document handed to parse_xml
    classes,             \* parse_xml's class mapping, in insertion order
    aggregations,        \* parse_xml's edge list
    config_xml,          \* outcome of generate_config_xml
    meta_json,           \* outcome of generate_meta_json
    config,              \* the base ConfigMap
    patched_config,      \* the patched ConfigMap
    delta_json,          \* JSON text of the delta
    res_patched_config,  \* JSON text returned by generate_res_patched_config
    done                 \* the functions that have been applied

modelVars == <<xml_file, classes, aggregations, config_xml, meta_json>>
deltaVars == <<config, patched_config, delta_json, res_patched_config>>
vars == <<xml_file, classes, aggregations, config_xml, meta_json,
          config, patched_config, delta_json, res_patched_config, done>>

(***************************************************************************)
(* Python values                                                           *)
(***************************************************************************)
PyInt(n) == <<"int", n, <<>>>>
PyFloat(n) == <<"float", n, <<>>>>
PyBool(b) == <<"bool", IF b THEN 1 ELSE 0, <<>>>>
PyNone == <<"NoneType", 0, <<>>>>
PyStr(s) == <<"str", 0, <<s>>>>
PyList(items) == <<"list", 0, items>>
PyDict(pairs) == <<"dict", 0, pairs>>

TypeOf(v) == v[1]
StrOf(v) == v[3][1]
Items(v) == v[3]

\* dict operations on the <<key, value>> pairs of a dict
HasKey(pairs, k) == \E i \in 1..Len(pairs) : pairs[i][1] = k
GetItem(pairs, k) == pairs[CHOOSE i \in 1..Len(pairs) : pairs[i][1] = k][2]
SetItem(pairs, k, v) ==
    IF HasKey(pairs, k)
    THEN [i \in 1..Len(pairs) |-> IF pairs[i][1] = k THEN <<k, v>> ELSE pairs[i]]
    ELSE Append(pairs, <<k, v>>)
Pop(pairs, k) == SelectSeq(pairs, LAMBDA p : p[1] # k)
KeysOf(pairs) == {pairs[i][1] : i \in 1..Len(pairs)}

IsNumber(v) == TypeOf(v) \in {"int", "bool", "float"}

\* Python's == on values: numbers compare by value across int, bool and float
RECURSIVE PyEq(_, _)
PyEq(a, b) ==
    IF IsNumber(a) /\ IsNumber(b) THEN a[2] = b[2]
    ELSE IF TypeOf(a) # TypeOf(b) THEN FALSE
    ELSE IF TypeOf(a) = "str" THEN StrOf(a) = StrOf(b)
    ELSE IF TypeOf(a) = "list"
         THEN /\ Len(Items(a)) = Len(Items(b))
              /\ \A i \in 1..Len(Items(a)) : PyEq(Items(a)[i], Items(b)[i])
    ELSE IF TypeOf(a) = "dict"
         THEN /\ KeysOf(Items(a)) = KeysOf(Items(b))
              /\ \A k \in KeysOf(Items(a)) :
                    PyEq(GetItem(Items(a), k), GetItem(Items(b), k))
    ELSE TRUE

(***************************************************************************)
(* json.dumps and json.loads.  JSON text is a sequence of lexemes          *)
(* <<kind, n, s>>: a number lexeme carries its integer part n and its      *)
(* fraction part s ("" for an int, ".0" for a float), a string lexeme its  *)
(* content, a literal or punctuation lexeme its text.  White space, which  *)
(* indent=4 adds, is not a lexeme.                                         *)
(***************************************************************************)
Punct(s) == <<"punct", 0, s>>
IsPunct(tok, s) == tok[1] = "punct" /\ tok[3] = s

RECURSIVE Dumps(_)
RECURSIVE DumpsItems(_, _)
RECURSIVE DumpsPairs(_, _)
Dumps(v) ==
    CASE TypeOf(v) = "int" -> << <<"number", v[2], "">> >>
      [] TypeOf(v) = "float" -> << <<"number", v[2], ".0">> >>
      [] TypeOf(v) = "bool" -> << <<"literal", 0, IF v[2] = 1 THEN "true" ELSE "false">> >>
      [] TypeOf(v) = "NoneType" -> << <<"literal", 0, "null">> >>
      [] TypeOf(v) = "str" -> << <<"string", 0, StrOf(v)>> >>
      [] TypeOf(v) = "list" -> <<Punct("[")>> \o DumpsItems(Items(v), 1) \o <<Punct("]")>>
      [] TypeOf(v) = "dict" -> <<Punct("{")>> \o DumpsPairs(Items(v), 1) \o <<Punct("}")>>
DumpsItems(items, i) ==
    IF i > Len(items) THEN <<>>
    ELSE (IF i > 1 THEN <<Punct(",")>> ELSE <<>>)
         \o Dumps(items[i]) \o DumpsItems(items, i + 1)
DumpsPairs(pairs, i) ==
    IF i > Len(pairs) THEN <<>>
    ELSE (IF i > 1 THEN <<Punct(",")>> ELSE <<>>)
         \o << <<"string", 0, pairs[i][1]>>, Punct(":") >>
         \o Dumps(pairs[i][2]) \o DumpsPairs(pairs, i + 1)

\* the parser returns <<value, index of the next lexeme>>
RECURSIVE ParseValue(_, _)
RECURSIVE ParseArray(_, _, _)
RECURSIVE ParseObject(_, _, _)
ParseValue(toks, i) ==
    LET tok == toks[i] IN
    CASE tok[1] = "number" ->
            <<IF tok[3] = "" THEN PyInt(tok[2]) ELSE PyFloat(tok[2]), i + 1>>
      [] tok[1] = "literal" ->
            <<IF tok[3] = "null" THEN PyNone ELSE PyBool(tok[3] = "true"), i + 1>>
      [] tok[1] = "string" -> <<PyStr(tok[3]), i + 1>>
      [] IsPunct(tok, "[") ->
            IF IsPunct(toks[i + 1], "]") THEN <<PyList(<<>>), i + 2>>
            ELSE ParseArray(toks, i + 1, <<>>)
      [] IsPunct(tok, "{") ->
            IF IsPunct(toks[i + 1], "}") THEN <<PyDict(<<>>), i + 2>>
            ELSE ParseObject(toks, i + 1, <<>>)
ParseArray(toks, i, acc) ==
    LET r == ParseValue(toks, i)
        items == Append(acc, r[1])
    IN  IF IsPunct(toks[r[2]], ",") THEN ParseArray(toks, r[2] + 1, items)
        ELSE <<PyList(items), r[2] + 1>>
ParseObject(toks, i, acc) ==
    LET r == ParseValue(toks, i + 2)
        pairs == SetItem(acc, toks[i][3], r[1])
    IN  IF IsPunct(toks[r[2]], ",") THEN ParseObject(toks, r[2] + 1, pairs)
        ELSE <<PyDict(pairs), r[2] + 1>>
Loads(toks) == ParseValue(toks, 1)[1]

(***************************************************************************)
(* The delta pipeline                                                      *)
(***************************************************************************)
AdditionOf(kv) == PyDict(<< <<"key", PyStr(kv[1])>>, <<"value", kv[2]>> >>)
UpdateOf(kv, p) ==
    PyDict(<< <<"key", PyStr(kv[1])>>, <<"from", kv[2]>>, <<"to", GetItem(p, kv[1])>> >>)

generate_delta_json(base, patched) ==
    LET c == Items(base)
        p == Items(patched)
        added == SelectSeq(p, LAMBDA kv : ~HasKey(c, kv[1]))
        deleted == SelectSeq(c, LAMBDA kv : ~HasKey(p, kv[1]))
        updated == SelectSeq(c, LAMBDA kv :
                        HasKey(p, kv[1]) /\ ~PyEq(kv[2], GetItem(p, kv[1])))
        additions == [i \in 1..Len(added) |-> AdditionOf(added[i])]
        deletions == [i \in 1..Len(deleted) |-> PyStr(deleted[i][1])]
        updates == [i \in 1..Len(updated) |-> UpdateOf(updated[i], p)]
    IN  Dumps(PyDict(<< <<"additions", PyList(additions)>>,
                        <<"deletions", PyList(deletions)>>,
                        <<"updates", PyList(updates)>> >>))

RECURSIVE PopAll(_, _, _)
PopAll(result, keys, i) ==
    IF i > Len(keys) THEN result
    ELSE PopAll(Pop(result, StrOf(keys[i])), keys, i + 1)

RECURSIVE SetAll(_, _, _, _)
SetAll(result, entries, field, i) ==
    IF i > Len(entries) THEN result
    ELSE SetAll(SetItem(result, StrOf(GetItem(Items(entries[i]), "key")),
                        GetItem(Items(entries[i]), field)),
                entries, field, i + 1)

\* a variant that applies the additions before the updates
generate_res_patched_config_additions_first(base, delta_text) ==
    LET delta == Items(Loads(delta_text))
        afterDeletions == PopAll(Items(base), Items(GetItem(delta, "deletions")), 1)
        afterAdditions == SetAll(afterDeletions, Items(GetItem(delta, "additions")), "value", 1)
        afterUpdates == SetAll(afterAdditions, Items(GetItem(delta, "updates")), "to", 1)
    IN  Dumps(PyDict(afterUpdates))

generate_res_patched_config(base, delta_text) ==
    LET delta == Items(Loads(delta_text))
        result == Items(base)
        afterDeletions == PopAll(result, Items(GetItem(delta, "deletions")), 1)
        afterUpdates == SetAll(afterDeletions, Items(GetItem(delta, "updates")), "to", 1)
        afterAdditions == SetAll(afterUpdates, Items(GetItem(delta, "additions")), "value", 1)
    IN  Dumps(PyDict(afterAdditions))

(***************************************************************************)
(* The class-model pipeline.  A Python str that the code takes apart (a    *)
(* multiplicity) is a sequence of characters; the text of config.xml is a  *)
(* sequence of string pieces.                                              *)
(***************************************************************************)
RecursionLimit == 3

Missing == "(no such attribute)"
\* Element.get(key, default)
Get(attribute, default) == IF attribute = Missing THEN default ELSE attribute

RECURSIVE ParseClasses(_, _, _)
ParseClasses(elems, i, cls) ==
    IF i > Len(elems) THEN cls
    ELSE ParseClasses(elems, i + 1,
            SetItem(cls, elems[i].name,
                    [isRoot |-> elems[i].isRoot = "true",
                     documentation |-> Get(elems[i].documentation, ""),
                     attributes |-> [j \in 1..Len(elems[i].attributes) |->
                                        [name |-> elems[i].attributes[j].name,
                                         type |-> elems[i].attributes[j].type]],
                     children |-> <<>>]))

\* a variant that records the containment the other way round
LinkChildReversed(cls, agg) ==
    IF HasKey(cls, agg.source) /\ HasKey(cls, agg.target)
    THEN SetItem(cls, agg.source,
            [GetItem(cls, agg.source) EXCEPT
                !.children = Append(@, [name |-> agg.target,
                                        multiplicity |-> agg.sourceMultiplicity])])
    ELSE cls

\* the edge's source becomes a child of its target when both are classes
LinkChild(cls, agg) ==
    IF HasKey(cls, agg.source) /\ HasKey(cls, agg.target)
    THEN SetItem(cls, agg.target,
            [GetItem(cls, agg.target) EXCEPT
                !.children = Append(@, [name |-> agg.source,
                                        multiplicity |-> agg.sourceMultiplicity])])
    ELSE cls

RECURSIVE ParseAggregations(_, _, _, _)
ParseAggregations(elems, i, cls, aggs) ==
    IF i > Len(elems) THEN <<cls, aggs>>
    ELSE LET agg == [source |-> elems[i].source,
                     target |-> elems[i].target,
                     sourceMultiplicity |-> elems[i].sourceMultiplicity,
                     targetMultiplicity |-> elems[i].targetMultiplicity]
         IN  ParseAggregations(elems, i + 1, LinkChild(cls, agg), Append(aggs, agg))

\* returns <<classes, aggregations>>
parse_xml(document) ==
    ParseAggregations(document.aggregations, 1,
                      ParseClasses(document.classes, 1, <<>>), <<>>)

\* a variant that never indents
IndentationFlat(n) == <<>>

Indentation(n) == [i \in 1..n |-> "  "]
Returned(xml) == [status |-> "returned", xml |-> xml]
Raised(exception) == [status |-> exception, xml |-> <<>>]

\* the interpreter raises RecursionError when the call stack reaches its limit
RECURSIVE build_xml_element(_, _, _)
RECURSIVE ExtendWithChildren(_, _, _, _, _)
build_xml_element(cls, class_name, indent) ==
    IF indent >= RecursionLimit THEN Raised("RecursionError")
    ELSE LET class_data == GetItem(cls, class_name)
             opening == Indentation(indent) \o <<"<", class_name, ">">>
             attrLines ==
                [j \in 1..Len(class_data.attributes) |->
                    Indentation(indent + 1)
                    \o <<"<", class_data.attributes[j].name, ">",
                         class_data.attributes[j].type,
                         "</", class_data.attributes[j].name, ">">>]
             closing == Indentation(indent) \o <<"</", class_name, ">">>
             body == ExtendWithChildren(cls, class_data.children, 1, indent,
                                        <<opening>> \o attrLines)
         IN  IF body.status # "returned" THEN body
             ELSE Returned(Append(body.xml, closing))
ExtendWithChildren(cls, children, i, indent, xml) ==
    IF i > Len(children) THEN Returned(xml)
    ELSE LET child == build_xml_element(cls, children[i].name, indent + 1)
         IN  IF child.status # "returned" THEN child
             ELSE ExtendWithChildren(cls, children, i + 1, indent, xml \o child.xml)

\* '\n'.join(lines)
RECURSIVE Join(_, _)
Join(lines, i) ==
    IF i > Len(lines) THEN <<>>
    ELSE (IF i > 1 THEN <<"\n">> ELSE <<>>) \o lines[i] \o Join(lines, i + 1)

\* returns [status, text]; next() raises StopIteration when no class is a root
generate_config_xml(cls) ==
    LET roots == {i \in 1..Len(cls) : cls[i][2].isRoot}
    IN  IF roots = {} THEN [status |-> "StopIteration", text |-> <<>>]
        ELSE LET root_class == cls[CHOOSE i \in roots : \A j \in roots : i <= j][1]
                 built == build_xml_element(cls, root_class, 0)
             IN  IF built.status # "returned"
                 THEN [status |-> built.status, text |-> <<>>]
                 ELSE [status |-> "returned",
                       text |-> Join(<< <<"<?xml version=\"1.0\" encoding=\"UTF-8\"?>">> >>
                                     \o built.xml, 1)]

\* '..' in s
HasDots(s) == \E i \in 1..(Len(s) - 1) : s[i] = "." /\ s[i + 1] = "."

\* s.split('..'): the separators are found left to right, without overlap
RECURSIVE Split(_, _, _, _)
Split(s, i, part, parts) ==
    IF i > Len(s) THEN Append(parts, part)
    ELSE IF i < Len(s) /\ s[i] = "." /\ s[i + 1] = "."
         THEN Split(s, i + 2, <<>>, Append(parts, part))
         ELSE Split(s, i + 1, Append(part, s[i]), parts)

\* a variant that never splits a range
ParseMultiplicityWhole(source_mult, multiplicity) ==
    [status |-> "returned", min |-> source_mult, max |-> source_mult]

\* one matching edge overwrites the bounds; unpacking anything but two parts
\* raises ValueError
ParseMultiplicity(source_mult, multiplicity) ==
    IF HasDots(source_mult)
    THEN LET parts == Split(source_mult, 1, <<>>, <<>>) IN
         IF Len(parts) # 2
         THEN [status |-> "ValueError", min |-> multiplicity.min, max |-> multiplicity.max]
         ELSE [status |-> "returned", min |-> parts[1], max |-> parts[2]]
    ELSE [status |-> "returned", min |-> source_mult, max |-> source_mult]

\* the loop over aggregations for one class: [status, min, max]
RECURSIVE Multiplicity(_, _, _, _)
Multiplicity(aggs, i, class_name, multiplicity) ==
    IF i > Len(aggs) \/ multiplicity.status # "returned" THEN multiplicity
    ELSE IF aggs[i].source # class_name
         THEN Multiplicity(aggs, i + 1, class_name, multiplicity)
         ELSE Multiplicity(aggs, i + 1, class_name,
                           ParseMultiplicity(aggs[i].sourceMultiplicity, multiplicity))

\* a variant that lists the children before the attributes
MetaEntryChildrenFirst(class_name, class_data, multiplicity) ==
    LET parameters ==
            [j \in 1..Len(class_data.children) |->
                PyDict(<< <<"name", PyStr(class_data.children[j].name)>>,
                          <<"type", PyStr("class")>> >>)]
            \o [j \in 1..Len(class_data.attributes) |->
                PyDict(<< <<"name", PyStr(class_data.attributes[j].name)>>,
                          <<"type", PyStr(class_data.attributes[j].type)>> >>)]
        meta_entry ==
            << <<"class", PyStr(class_name)>>,
               <<"documentation", PyStr(class_data.documentation)>>,
               <<"isRoot", PyBool(class_data.isRoot)>>,
               <<"parameters", PyList(parameters)>> >>
    IN  IF ~class_data.isRoot
        THEN PyDict(SetItem(SetItem(meta_entry, "min", PyStr(multiplicity.min)),
                            "max", PyStr(multiplicity.max)))
        ELSE PyDict(meta_entry)

MetaEntry(class_name, class_data, multiplicity) ==
    LET parameters ==
            [j \in 1..Len(class_data.attributes) |->
                PyDict(<< <<"name", PyStr(class_data.attributes[j].name)>>,
                          <<"type", PyStr(class_data.attributes[j].type)>> >>)]
            \o [j \in 1..Len(class_data.children) |->
                PyDict(<< <<"name", PyStr(class_data.children[j].name)>>,
                          <<"type", PyStr("class")>> >>)]
        meta_entry ==
            << <<"class", PyStr(class_name)>>,
               <<"documentation", PyStr(class_data.documentation)>>,
               <<"isRoot", PyBool(class_data.isRoot)>>,
               <<"parameters", PyList(parameters)>> >>
    IN  IF ~class_data.isRoot
        THEN PyDict(SetItem(SetItem(meta_entry, "min", PyStr(multiplicity.min)),
                            "max", PyStr(multiplicity.max)))
        ELSE PyDict(meta_entry)

RECURSIVE MetaEntries(_, _, _, _)
MetaEntries(cls, aggs, i, meta) ==
    IF i > Len(cls) THEN [status |-> "returned", meta |-> meta]
    ELSE LET multiplicity ==
                Multiplicity(aggs, 1, cls[i][1],
                             [status |-> "returned", min |-> <<"0">>, max |-> <<"*">>])
         IN  IF multiplicity.status # "returned"
             THEN [status |-> multiplicity.status, meta |-> <<>>]
             ELSE MetaEntries(cls, aggs, i + 1,
                              Append(meta, MetaEntry(cls[i][1], cls[i][2], multiplicity)))

\* returns [status, text]
generate_meta_json(cls, aggs) ==
    LET entries == MetaEntries(cls, aggs, 1, <<>>)
    IN  IF entries.status # "returned"
        THEN [status |-> entries.status, text |-> <<>>]
        ELSE [status |-> "returned", text |-> Dumps(PyList(entries.meta))]

(***************************************************************************)
(* Inputs of the class-model pipeline                                      *)
(***************************************************************************)
BoundedSeqs(S, n) == UNION {[1..m -> S] : m \in 0..n}

MaxClasses == 3
MaxAggs == 3
MaxMultAggs == 2

NameOrder == <<"A", "B", "C", "D">>

AttributesOf(name) ==
    CASE name = "A" -> <<[name |-> "id", type |-> "int"], [name |-> "label", type |-> "string"]>>
      [] name = "B" -> <<[name |-> "size", type |-> "int"]>>
      [] OTHER -> <<>>

ClassElem(name, isRoot) ==
    [name |-> name, isRoot |-> isRoot,
     documentation |-> IF name = "A" THEN Missing ELSE "about " \o name,
     attributes |-> AttributesOf(name)]

\* the first n names declared in order, the classes numbered in roots marked
\* isRoot="true"
ClassElems(n, roots) ==
    [i \in 1..n |-> ClassElem(NameOrder[i], IF i \in roots THEN "true" ELSE "false")]

AggElem(source, target, sourceMultiplicity) ==
    [source |-> source, target |-> target,
     sourceMultiplicity |-> sourceMultiplicity, targetMultiplicity |-> <<"1">>]

\* <<source, target>>: the target contains the source.  The pairs give
\* chains, a class with two parents, a repeated edge, a class that contains
\* itself and a cycle of two classes
GraphEdges ==
    {<<"B", "A">>, <<"C", "A">>, <<"C", "B">>, <<"A", "B">>, <<"A", "A">>}

\* documents with these containment graphs (an edge that names a class the
\* document does not declare is unresolved); the first or the second class
\* is marked as the root, so a document of one class may have none
GraphDocuments ==
    {[classes |-> ClassElems(n, {r}), aggregations |-> aggs] :
        n \in 1..MaxClasses, r \in 1..2,
        aggs \in BoundedSeqs({AggElem(e[1], e[2], <<"1", ".", ".", "*">>) :
                                e \in GraphEdges}, MaxAggs)}

Multiplicities ==
    {<<"3">>, <<"1", ".", ".", "*">>, <<"1", ".", ".">>, <<".", ".", "5">>,
     <<".", ".">>, <<>>, <<"1", ".", ".", "2", ".", ".", "3">>,
     <<"1", ".", ".", ".", "2">>}

MultiplicityEdges ==
    {AggElem("B", "A", m) : m \in Multiplicities}
    \cup {AggElem("B", "C", <<"0", ".", ".", "1">>), AggElem("A", "B", <<"3">>),
          AggElem("A", "B", <<"1", ".", ".", "2", ".", ".", "3">>)}

\* documents with every multiplicity string, with no root, one root or two,
\* and one that declares class A twice
MultiplicityDocuments ==
    {[classes |-> c, aggregations |-> aggs] :
        c \in {ClassElems(2, {1}), ClassElems(2, {}), ClassElems(3, {1, 2}),
               ClassElems(2, {1}) \o <<ClassElem("A", "false")>>},
        aggs \in BoundedSeqs(MultiplicityEdges, MaxMultAggs)}

NotCalled == [status |-> "not called", text |-> <<>>]

DeltaIdle ==
    /\ config = PyDict(<<>>)
    /\ patched_config = PyDict(<<>>)
    /\ delta_json = <<>>
    /\ res_patched_config = <<>>

InitModel ==
    /\ xml_file \in GraphDocuments \cup MultiplicityDocuments
    /\ classes = <<>>
    /\ aggregations = <<>>
    /\ config_xml = NotCalled
    /\ meta_json = NotCalled
    /\ DeltaIdle
    /\ done = {}

ParseXml ==
    /\ "parse_xml" \notin done
    /\ classes' = parse_xml(xml_file)[1]
    /\ aggregations' = parse_xml(xml_file)[2]
    /\ done' = done \cup {"parse_xml"}
    /\ UNCHANGED <<xml_file, config_xml, meta_json, deltaVars>>

GenerateConfigXml ==
    /\ "parse_xml" \in done
    /\ "generate_config_xml" \notin done
    /\ config_xml' = generate_config_xml(classes)
    /\ done' = done \cup {"generate_config_xml"}
    /\ UNCHANGED <<xml_file, classes, aggregations, meta_json, deltaVars>>

GenerateMetaJson ==
    /\ "parse_xml" \in done
    /\ "generate_meta_json" \notin done
    /\ meta_json' = generate_meta_json(classes, aggregations)
    /\ done' = done \cup {"generate_meta_json"}
    /\ UNCHANGED <<xml_file, classes, aggregations, config_xml, deltaVars>>

\* the two generators only read the model graph, so they are applied in
\* either order
NextModel == ParseXml \/ GenerateConfigXml \/ GenerateMetaJson
SpecModel == InitModel /\ [][NextModel]_vars

(***************************************************************************)
(* Inputs of the delta pipeline                                            *)
(***************************************************************************)
MaxKeys == 2
MaxEntries == 2

RECURSIVE Ascending(_)
Ascending(S) ==
    IF S = {} THEN <<>>
    ELSE LET m == CHOOSE x \in S : \A y \in S : x <= y
         IN  <<m>> \o Ascending(S \ {m})

ConfigKeys == <<"a", "b", "c">>
ConfigValues ==
    {PyInt(1), PyInt(2), PyBool(TRUE), PyFloat(1),
     PyList(<<PyInt(1)>>), PyList(<<PyBool(TRUE)>>)}

\* the ConfigMaps json.load can return: at most MaxKeys keys, any values
ConfigMaps ==
    UNION {{PyDict([i \in 1..Cardinality(S) |->
                        <<ConfigKeys[Ascending(S)[i]], f[Ascending(S)[i]]>>]) :
                f \in [S -> ConfigValues]} :
           S \in {T \in SUBSET (1..Len(ConfigKeys)) : Cardinality(T) <= MaxKeys}}

\* hand-constructed deltas: a key may occur in several categories and
\* several times in one category
PatchBases ==
    {PyDict(<<>>), PyDict(<< <<"a", PyInt(1)>> >>), PyDict(<< <<"b", PyInt(2)>> >>),
     PyDict(<< <<"a", PyInt(2)>>, <<"b", PyInt(1)>> >>)}
DeletionLists ==
    {<<>>, <<PyStr("a")>>, <<PyStr("a"), PyStr("b")>>, <<PyStr("a"), PyStr("a")>>}
DeltaEntry(k, field, v) ==
    IF field = "to"
    THEN PyDict(<< <<"key", PyStr(k)>>, <<"from", PyInt(1)>>, <<"to", v>> >>)
    ELSE PyDict(<< <<"key", PyStr(k)>>, <<"value", v>> >>)
UpdateEntries ==
    {DeltaEntry("a", "to", PyInt(1)), DeltaEntry("a", "to", PyInt(2)),
     DeltaEntry("b", "to", PyInt(2))}
AdditionEntries ==
    {DeltaEntry("a", "value", PyInt(1)), DeltaEntry("a", "value", PyInt(2)),
     DeltaEntry("b", "value", PyInt(1))}
HandDelta(a, d, u) ==
    PyDict(<< <<"additions", PyList(a)>>, <<"deletions", PyList(d)>>,
              <<"updates", PyList(u)>> >>)

NoDocument == [classes |-> <<>>, aggregations |-> <<>>]
NoText == <<>>

ModelIdle ==
    /\ xml_file = NoDocument
    /\ classes = <<>>
    /\ aggregations = <<>>
    /\ config_xml = NotCalled
    /\ meta_json = NotCalled

\* main()'s delta half: both maps are read, the delta is computed, then applied
InitDelta ==
    /\ ModelIdle
    /\ config \in ConfigMaps
    /\ patched_config \in ConfigMaps
    /\ delta_json = NoText
    /\ res_patched_config = NoText
    /\ done = {}

\* generate_res_patched_config called with a delta its caller wrote
InitPatch ==
    /\ ModelIdle
    /\ config \in PatchBases
    /\ patched_config = PyDict(<<>>)
    /\ \E a \in BoundedSeqs(AdditionEntries, MaxEntries), d \in DeletionLists,
          u \in BoundedSeqs(UpdateEntries, MaxEntries) :
            delta_json = Dumps(HandDelta(a, d, u))
    /\ res_patched_config = NoText
    /\ done = {}

GenerateDeltaJson ==
    /\ delta_json = NoText
    /\ delta_json' = generate_delta_json(config, patched_config)
    /\ done' = done \cup {"generate_delta_json"}
    /\ UNCHANGED <<modelVars, config, patched_config, res_patched_config>>

GenerateResPatchedConfig ==
    /\ delta_json # NoText
    /\ "generate_res_patched_config" \notin done
    /\ res_patched_config' = generate_res_patched_config(config, delta_json)
    /\ done' = done \cup {"generate_res_patched_config"}
    /\ UNCHANGED <<modelVars, config, patched_config, delta_json>>

NextDelta == GenerateDeltaJson \/ GenerateResPatchedConfig
SpecDelta == InitDelta /\ [][NextDelta]_vars

NextPatch == GenerateResPatchedConfig
SpecPatch == InitPatch /\ [][NextPatch]_vars

(***************************************************************************)
(* Properties of the delta pipeline                                        *)
(***************************************************************************)
Base == Items(config)
Patched == Items(patched_config)
Category(delta, name) == Items(GetItem(Items(delta), name))
EntryKey(e) == StrOf(GetItem(Items(e), "key"))
EntryField(e, field) == GetItem(Items(e), field)
EntriesFor(entries, k) == {i \in 1..Len(entries) : EntryKey(entries[i]) = k}
DeletionsOf(deletions, k) == {i \in 1..Len(deletions) : StrOf(deletions[i]) = k}
Last(S) == CHOOSE i \in S : \A j \in S : j <= i
DeltaKeys(additions, deletions, updates) ==
    {EntryKey(additions[i]) : i \in 1..Len(additions)}
    \cup {StrOf(deletions[i]) : i \in 1..Len(deletions)}
    \cup {EntryKey(updates[i]) : i \in 1..Len(updates)}
\* two values have the same JSON form
SameJson(v, w) == Dumps(v) = Dumps(w)

\* C1: applying the delta of A and B to A gives a map with B's keys and,
\* for every key, a value whose JSON form is B's.
C1_RoundTrip ==
    "generate_res_patched_config" \in done =>
        LET result == Items(Loads(res_patched_config))
        IN  /\ KeysOf(result) = KeysOf(Patched)
            /\ \A k \in KeysOf(Patched) :
                  HasKey(result, k) /\ SameJson(GetItem(result, k), GetItem(Patched, k))

\* the classification, with "the values differ" read as a difference of JSON
\* forms (byJson) or as Python's !=
Classified(additions, deletions, updates, byJson) ==
    /\ DeltaKeys(additions, deletions, updates) \subseteq KeysOf(Base) \cup KeysOf(Patched)
    /\ \A k \in KeysOf(Base) \cup KeysOf(Patched) :
          LET onlyPatched == HasKey(Patched, k) /\ ~HasKey(Base, k)
              onlyBase == HasKey(Base, k) /\ ~HasKey(Patched, k)
              differ == /\ HasKey(Base, k) /\ HasKey(Patched, k)
                        /\ IF byJson
                           THEN ~SameJson(GetItem(Base, k), GetItem(Patched, k))
                           ELSE ~PyEq(GetItem(Base, k), GetItem(Patched, k))
          IN  /\ Cardinality(EntriesFor(additions, k)) = (IF onlyPatched THEN 1 ELSE 0)
              /\ Cardinality(DeletionsOf(deletions, k)) = (IF onlyBase THEN 1 ELSE 0)
              /\ Cardinality(EntriesFor(updates, k)) = (IF differ THEN 1 ELSE 0)
              /\ \A i \in EntriesFor(additions, k) :
                    EntryField(additions[i], "value") = GetItem(Patched, k)
              /\ \A i \in EntriesFor(updates, k) :
                    /\ EntryField(updates[i], "from") = GetItem(Base, k)
                    /\ EntryField(updates[i], "to") = GetItem(Patched, k)

\* C2: every key is classified exactly: one addition for a key only in
\* patched, one deletion for a key only in base, one update for a key in both
\* whose values differ, nothing for a key in both with equal values, and
\* nothing for any other key.
C2_ExactClassification ==
    "generate_delta_json" \in done =>
        LET delta == Loads(delta_json)
        IN  Classified(Category(delta, "additions"), Category(delta, "deletions"),
                       Category(delta, "updates"), TRUE)

\* The same classification with the comparison the code makes: it is exact
\* for Python's !=, so it departs from the one above only where two values
\* are equal in Python and differ in JSON.
ClassifiedForPythonEquality ==
    "generate_delta_json" \in done =>
        LET delta == Loads(delta_json)
        IN  Classified(Category(delta, "additions"), Category(delta, "deletions"),
                       Category(delta, "updates"), FALSE)

\* C3: a key present in both maps is reported as an update exactly when the
\* JSON forms of its two values are not identical.
C3_UpdateIffJsonDiffers ==
    "generate_delta_json" \in done =>
        LET updates == Category(Loads(delta_json), "updates")
        IN  \A k \in KeysOf(Base) \cap KeysOf(Patched) :
                (EntriesFor(updates, k) # {})
                    <=> ~SameJson(GetItem(Base, k), GetItem(Patched, k))

\* what the result holds for key k: <<present, value>>
Resolved(additions, deletions, updates, k) ==
    IF EntriesFor(additions, k) # {}
    THEN <<TRUE, EntryField(additions[Last(EntriesFor(additions, k))], "value")>>
    ELSE IF EntriesFor(updates, k) # {}
    THEN <<TRUE, EntryField(updates[Last(EntriesFor(updates, k))], "to")>>
    ELSE IF DeletionsOf(deletions, k) # {} THEN <<FALSE, PyNone>>
    ELSE IF HasKey(Base, k) THEN <<TRUE, GetItem(Base, k)>>
    ELSE <<FALSE, PyNone>>

PatchedInOrder(additions, deletions, updates, result) ==
    \A k \in KeysOf(Base) \cup DeltaKeys(additions, deletions, updates) \cup KeysOf(result) :
        /\ HasKey(result, k) = Resolved(additions, deletions, updates, k)[1]
        /\ HasKey(result, k) =>
              GetItem(result, k) = Resolved(additions, deletions, updates, k)[2]

\* C4: for any base and any delta the result holds, for every key, the value
\* of its last addition, else the 'to' of its last update, else nothing if it
\* is listed in deletions, else its base value; deleting an absent key does
\* nothing.
C4_PatchOrder ==
    "generate_res_patched_config" \in done =>
        LET delta == Loads(delta_json)
        IN  PatchedInOrder(Category(delta, "additions"), Category(delta, "deletions"),
                           Category(delta, "updates"), Items(Loads(res_patched_config)))

ManyCategories(additions, deletions, updates, result) ==
    /\ \E k \in DeltaKeys(additions, deletions, updates) :
          /\ ~HasKey(Base, k)
          /\ DeletionsOf(deletions, k) # {}
          /\ EntriesFor(updates, k) # {}
          /\ \E i, j \in EntriesFor(additions, k) :
                EntryField(additions[i], "value") # EntryField(additions[j], "value")
          /\ HasKey(result, k)
    /\ \E k \in DeltaKeys(additions, deletions, updates) :
          /\ HasKey(Base, k)
          /\ EntriesFor(additions, k) = {}
          /\ \E i \in EntriesFor(updates, k) :
                EntryField(updates[i], "from") # GetItem(Base, k)

\* a key deleted though absent from base, updated, and added twice with
\* different values; another key updated with a 'from' that is not its value
C4_Witness ==
    /\ "generate_res_patched_config" \in done
    /\ LET delta == Loads(delta_json)
       IN  ManyCategories(Category(delta, "additions"), Category(delta, "deletions"),
                          Category(delta, "updates"), Items(Loads(res_patched_config)))

(***************************************************************************)
(* Properties of the class-model pipeline                                  *)
(***************************************************************************)
Declared == {xml_file.classes[i].name : i \in 1..Len(xml_file.classes)}
ChildNames(cls, c) ==
    {GetItem(cls, c).children[j].name : j \in 1..Len(GetItem(cls, c).children)}
RootsOf(cls) == {i \in 1..Len(cls) : cls[i][2].isRoot}
\* the class next() picks
FirstRoot(cls) == cls[CHOOSE i \in RootsOf(cls) : \A j \in RootsOf(cls) : i <= j][1]

RECURSIVE Closure(_, _)
Closure(cls, S) ==
    LET next == S \cup UNION {ChildNames(cls, c) : c \in S}
    IN  IF next = S THEN S ELSE Closure(cls, next)
Reachable(cls, c) == Closure(cls, {c})
Descendants(cls, c) == Closure(cls, ChildNames(cls, c))
Acyclic(cls) == \A c \in KeysOf(cls) : c \notin Descendants(cls, c)
CycleReachable(cls, c) == \E d \in Reachable(cls, c) : d \in Descendants(cls, d)

RECURSIVE SumSeq(_)
SumSeq(ns) == IF ns = <<>> THEN 0 ELSE Head(ns) + SumSeq(Tail(ns))

\* the number of containment paths of n edges from the root to class c
RECURSIVE Walks(_, _, _, _)
Walks(cls, root, c, n) ==
    IF n = 0 THEN (IF c = root THEN 1 ELSE 0)
    ELSE SumSeq([p \in 1..Len(cls) |->
            Walks(cls, root, cls[p][1], n - 1)
            * Cardinality({j \in 1..Len(cls[p][2].children) :
                              cls[p][2].children[j].name = c})])
Paths(cls, root, c) == SumSeq([n \in 1..Len(cls) |-> Walks(cls, root, c, n - 1)])
Depth(cls, root) ==
    CHOOSE n \in 0..Len(cls) :
        /\ \E c \in KeysOf(cls) : Walks(cls, root, c, n) > 0
        /\ \A m \in (n + 1)..Len(cls) : \A c \in KeysOf(cls) : Walks(cls, root, c, m) = 0

RECURSIVE SplitLines(_, _, _, _)
SplitLines(text, i, line, lines) ==
    IF i > Len(text) THEN Append(lines, line)
    ELSE IF text[i] = "\n" THEN SplitLines(text, i + 1, <<>>, Append(lines, line))
    ELSE SplitLines(text, i + 1, Append(line, text[i]), lines)
IndentOf(line) ==
    CHOOSE n \in 0..Len(line) :
        /\ \A j \in 1..n : line[j] = "  "
        /\ n = Len(line) \/ line[n + 1] # "  "
Markup(line) == SubSeq(line, IndentOf(line) + 1, Len(line))
IsOpening(line, c) == Markup(line) = <<"<", c, ">">>
IsClosing(line, c) == Markup(line) = <<"</", c, ">">>
Openings(lines, c) == {i \in 1..Len(lines) : IsOpening(lines[i], c)}
Closings(lines, c) == {i \in 1..Len(lines) : IsClosing(lines[i], c)}

\* every class block opens one level deeper than the block that contains it,
\* and closes at the indentation it opened with
Nested(lines, cls) ==
    \A i \in 1..Len(lines) : \A c \in KeysOf(cls) :
        IsOpening(lines[i], c) =>
            LET d == IndentOf(lines[i])
                outer == {j \in 1..(i - 1) : IndentOf(lines[j]) < d
                                              /\ \E p \in KeysOf(cls) : IsOpening(lines[j], p)}
            IN  /\ d = 0 => i = 2 /\ c = FirstRoot(cls)
                /\ d > 0 =>
                      /\ outer # {}
                      /\ IndentOf(lines[Last(outer)]) = d - 1
                      /\ \E p \in KeysOf(cls) :
                            IsOpening(lines[Last(outer)], p) /\ c \in ChildNames(cls, p)
                      /\ \A m \in Last(outer)..i : IndentOf(lines[m]) >= d - 1
                      /\ \A m \in (Last(outer) + 1)..i : IndentOf(lines[m]) >= d
                /\ \E k \in (i + 1)..Len(lines) :
                      /\ IsClosing(lines[k], c)
                      /\ IndentOf(lines[k]) = d
                      /\ \A m \in (i + 1)..(k - 1) : IndentOf(lines[m]) > d

OneRootAcyclic ==
    /\ "generate_config_xml" \in done
    /\ Cardinality(RootsOf(classes)) = 1
    /\ Acyclic(classes)

C6_CycleReported ==
    ( /\ "generate_config_xml" \in done
      /\ RootsOf(classes) # {}
      /\ CycleReachable(classes, FirstRoot(classes)) ) =>
        config_xml.status = "UnboundedRecursionError"

ExpectedParameters(class_data) ==
    [j \in 1..(Len(class_data.attributes) + Len(class_data.children)) |->
        IF j <= Len(class_data.attributes)
        THEN PyDict(<< <<"name", PyStr(class_data.attributes[j].name)>>,
                       <<"type", PyStr(class_data.attributes[j].type)>> >>)
        ELSE PyDict(<< <<"name", PyStr(class_data.children[j - Len(class_data.attributes)].name)>>,
                       <<"type", PyStr("class")>> >>)]

\* C7: one descriptor per declared class, in class-mapping order, reachable
\* from the root or not; its parameters are the attributes in order, then
\* the children in order as {name, type: "class"}.
C7_OneDescriptorPerClass ==
    meta_json.status = "returned" =>
        LET descriptors == Items(Loads(meta_json.text))
        IN  /\ Len(descriptors) = Cardinality(Declared)
            /\ Len(descriptors) = Len(classes)
            /\ \A i \in 1..Len(descriptors) :
                  /\ GetItem(Items(descriptors[i]), "class") = PyStr(classes[i][1])
                  /\ GetItem(Items(descriptors[i]), "parameters")
                        = PyList(ExpectedParameters(classes[i][2]))

\* descriptors for a class outside the root's tree and for a class with both
\* attributes and children
C7_Witness ==
    /\ meta_json.status = "returned"
    /\ RootsOf(classes) # {}
    /\ KeysOf(classes) \ Reachable(classes, FirstRoot(classes)) # {}
    /\ \E i \in 1..Len(classes) :
          Len(classes[i][2].attributes) > 0 /\ Len(classes[i][2].children) > 1
    /\ Len(Items(Loads(meta_json.text))) = Len(classes)

EdgesFrom(c) == {i \in 1..Len(aggregations) : aggregations[i].source = c}
FirstDots(s) ==
    CHOOSE i \in 1..(Len(s) - 1) :
        /\ s[i] = "." /\ s[i + 1] = "."
        /\ \A j \in 1..(i - 1) : ~(s[j] = "." /\ s[j + 1] = ".")
ExpectedBounds(c) ==
    IF EdgesFrom(c) = {} THEN << <<"0">>, <<"*">> >>
    ELSE LET s == aggregations[Last(EdgesFrom(c))].sourceMultiplicity
         IN  IF HasDots(s)
             THEN <<SubSeq(s, 1, FirstDots(s) - 1), SubSeq(s, FirstDots(s) + 2, Len(s))>>
             ELSE <<s, s>>

\* C8: a descriptor carries min and max exactly when its class is not the
\* root; they come from the last edge whose source is the class (resolved
\* or not): the two parts of a string with "..", else the string twice;
\* "0" and "*" when there is no such edge.
C8_Bounds ==
    meta_json.status = "returned" =>
        LET descriptors == Items(Loads(meta_json.text))
        IN  \A i \in 1..Len(descriptors) :
                LET d == Items(descriptors[i])
                IN  /\ HasKey(d, "min") <=> ~classes[i][2].isRoot
                    /\ HasKey(d, "max") <=> ~classes[i][2].isRoot
                    /\ ~classes[i][2].isRoot =>
                          /\ GetItem(d, "min") = PyStr(ExpectedBounds(classes[i][1])[1])
                          /\ GetItem(d, "max") = PyStr(ExpectedBounds(classes[i][1])[2])

\* a non-root class that is the source of two edges with different
\* multiplicities, the last one unresolved and a range; a class with no edge;
\* a root that is the source of an edge
C8_Witness ==
    /\ meta_json.status = "returned"
    /\ \E i \in 1..Len(classes) :
          /\ ~classes[i][2].isRoot
          /\ Cardinality(EdgesFrom(classes[i][1])) = 2
          /\ \E e, f \in EdgesFrom(classes[i][1]) :
                aggregations[e].sourceMultiplicity # aggregations[f].sourceMultiplicity
          /\ aggregations[Last(EdgesFrom(classes[i][1]))].target \notin KeysOf(classes)
          /\ HasDots(aggregations[Last(EdgesFrom(classes[i][1]))].sourceMultiplicity)
          /\ HasKey(Items(Items(Loads(meta_json.text))[i]), "min")
    /\ \E i \in 1..Len(classes) : ~classes[i][2].isRoot /\ EdgesFrom(classes[i][1]) = {}

\* neither a single non-empty token nor min..max with both parts non-empty
Malformed(s) ==
    IF HasDots(s)
    THEN LET parts == Split(s, 1, <<>>, <<>>)
         IN  Len(parts) # 2 \/ parts[1] = <<>> \/ parts[2] = <<>>
    ELSE s = <<>>

\* C9: a malformed sourceMultiplicity on an edge whose source is a declared
\* class ends generate_meta_json in an error; no descriptors are emitted.
C9_MalformedRaises ==
    ( /\ "generate_meta_json" \in done
      /\ \E i \in 1..Len(aggregations) :
            /\ aggregations[i].source \in KeysOf(classes)
            /\ Malformed(aggregations[i].sourceMultiplicity) ) =>
        meta_json.status # "returned"

ResolvedChildren(t) ==
    LET edges == SelectSeq(xml_file.aggregations,
                           LAMBDA e : e.target = t /\ e.source \in Declared)
    IN  [j \in 1..Len(edges) |->
            [name |-> edges[j].source, multiplicity |-> edges[j].sourceMultiplicity]]

\* C10: after parse_xml every children entry names a class of the mapping;
\* a class's children are, in declaration order, the edges that target it
\* and whose source is declared too; an edge naming an undeclared class adds
\* no entry; every edge is kept in the edge list, in order.
C10_ChildrenResolve ==
    "parse_xml" \in done =>
        /\ KeysOf(classes) = Declared
        /\ \A i \in 1..Len(classes) :
              /\ classes[i][2].children = ResolvedChildren(classes[i][1])
              /\ \A j \in 1..Len(classes[i][2].children) :
                    classes[i][2].children[j].name \in KeysOf(classes)
        /\ aggregations = xml_file.aggregations

\* an unresolved source, an unresolved target, and a class with one child
C10_Witness ==
    /\ "parse_xml" \in done
    /\ \E i \in 1..Len(aggregations) :
          aggregations[i].source \notin Declared /\ aggregations[i].target \in Declared
    /\ \E i \in 1..Len(aggregations) :
          aggregations[i].target \notin Declared /\ aggregations[i].source \in Declared
    /\ \E i \in 1..Len(classes) : Len(classes[i][2].children) = 1

====
